---- MODULE Spec2Model ----
(***************************************************************************)
(* discogs_alert/client.py: the API client (Client, UserTokenClient) and   *)
(* the scraping client (AnonClient), as a state machine.  One action per   *)
(* public method or request primitive; the catalog service and the browser *)
(* are the environment, which answers each request with any response of a  *)
(* small sample set.                                                       *)
(***************************************************************************)
EXTENDS Integers, Sequences, FiniteSets, TLC

VARIABLES
    rate_limit,            \* Client.rate_limit, per client object
    rate_limit_used,       \* Client.rate_limit_used
    rate_limit_remaining,  \* Client.rate_limit_remaining
    user_token,            \* UserTokenClient.user_token
    driver,                \* AnonClient.driver: the browser session it holds
    browser,               \* the browser sessions started so far, by session id
    call,                  \* the most recent method call: client, method, arguments
    wire,                  \* the HTTP requests that call sent, in order
    response,              \* the HTTP responses that call received, in order
    built,                 \* the entity constructions that call attempted, in order
    rendered,              \* the pages that call had a browser session load, in order
    result                 \* how that call ended: a returned value or a raised error

vars == <<rate_limit, rate_limit_used, rate_limit_remaining, user_token, driver,
          browser, call, wire, response, built, rendered, result>>

(***************************************************************************)
(* Python values, tagged by type.  A str holds its characters, a list its  *)
(* elements, a dict a function from keys (character sequences) to values,  *)
(* bytes the tokens of the text.                                           *)
(***************************************************************************)
PyNone == [kind |-> "NoneType"]
PyBool(b) == [kind |-> "bool", val |-> b]
PyInt(n) == [kind |-> "int", val |-> n]
PyStr(s) == [kind |-> "str", val |-> s]
PyList(s) == [kind |-> "list", val |-> s]
PyDict(f) == [kind |-> "dict", val |-> f]
PyBytes(t) == [kind |-> "bytes", val |-> t]
PyTuple(s) == [kind |-> "tuple", val |-> s]
PyFalse == PyBool(FALSE)

\* The outcome of evaluating a Python expression: a value, or a raised exception.
Ok(v) == [ok |-> TRUE, val |-> v]
Raise(e, where) == [ok |-> FALSE, exc |-> e, at |-> where]

Digits == <<"0", "1", "2", "3", "4", "5", "6", "7", "8", "9">>
IsDigit(ch) == \E i \in 1..10 : Digits[i] = ch
DigitVal(ch) == (CHOOSE i \in 1..10 : Digits[i] = ch) - 1

RECURSIVE DecimalValue(_)
DecimalValue(s) ==
    IF s = <<>> THEN 0
    ELSE 10 * DecimalValue(SubSeq(s, 1, Len(s) - 1)) + DigitVal(s[Len(s)])

\* int(x) as _request uses it: of a str of decimal digits its value, of any other
\* str a ValueError, of None (an absent header) a TypeError.
int(x, where) ==
    IF x.kind = "str"
    THEN IF x.val # <<>> /\ \A i \in 1..Len(x.val) : IsDigit(x.val[i])
         THEN Ok(PyInt(DecimalValue(x.val)))
         ELSE Raise("ValueError", where)
    ELSE IF x.kind = "int" THEN Ok(x)
    ELSE Raise("TypeError", where)

\* str(n) of a natural number, as the f-strings that build the URLs format an id.
RECURSIVE FormatInt(_)
FormatInt(n) ==
    IF n < 10 THEN <<Digits[n + 1]>>
    ELSE FormatInt(n \div 10) \o <<Digits[(n % 10) + 1]>>

(***************************************************************************)
(* json.loads over a tokenised text.  Tokens: punctuation, one decimal     *)
(* digit, a string literal with its characters, a literal name, and        *)
(* anything else.                                                          *)
(***************************************************************************)
P(s) == [tk |-> "p", p |-> s]
D(s) == [tk |-> "d", p |-> s]
S(chars) == [tk |-> "str", chars |-> chars]
Lit(name) == [tk |-> "lit", p |-> name]
Junk == [tk |-> "junk"]

IsP(toks, i, s) == i <= Len(toks) /\ toks[i].tk = "p" /\ toks[i].p = s
NoParse == [ok |-> FALSE]
Parsed(v, next) == [ok |-> TRUE, val |-> v, next |-> next]

RECURSIVE ParseDigits(_, _, _)
ParseDigits(toks, i, acc) ==
    IF i <= Len(toks) /\ toks[i].tk = "d"
    THEN ParseDigits(toks, i + 1, 10 * acc + DigitVal(toks[i].p))
    ELSE Parsed(PyInt(acc), i)

RECURSIVE ParseValue(_, _), ParseElems(_, _, _), ParseMembers(_, _, _)
ParseValue(toks, i) ==
    IF i > Len(toks) THEN NoParse
    ELSE LET t == toks[i] IN
         CASE t.tk = "d" -> ParseDigits(toks, i, 0)
           [] t.tk = "str" -> Parsed(PyStr(t.chars), i + 1)
           [] t.tk = "lit" ->
                IF t.p = "true" THEN Parsed(PyBool(TRUE), i + 1)
                ELSE IF t.p = "false" THEN Parsed(PyBool(FALSE), i + 1)
                ELSE IF t.p = "null" THEN Parsed(PyNone, i + 1)
                ELSE NoParse
           [] t.tk = "p" ->
                IF t.p = "[" THEN
                    IF IsP(toks, i + 1, "]") THEN Parsed(PyList(<<>>), i + 2)
                    ELSE ParseElems(toks, i + 1, <<>>)
                ELSE IF t.p = "{" THEN
                    IF IsP(toks, i + 1, "}") THEN Parsed(PyDict(<<>>), i + 2)
                    ELSE ParseMembers(toks, i + 1, <<>>)
                ELSE NoParse
           [] OTHER -> NoParse

\* the elements of an array from position i on, acc those read so far
ParseElems(toks, i, acc) ==
    LET e == ParseValue(toks, i) IN
    IF ~e.ok THEN NoParse
    ELSE IF IsP(toks, e.next, ",") THEN ParseElems(toks, e.next + 1, Append(acc, e.val))
    ELSE IF IsP(toks, e.next, "]") THEN Parsed(PyList(Append(acc, e.val)), e.next + 1)
    ELSE NoParse

\* the members of an object from position i on; a repeated key keeps its last value
ParseMembers(toks, i, acc) ==
    IF ~(i <= Len(toks) /\ toks[i].tk = "str" /\ IsP(toks, i + 1, ":")) THEN NoParse
    ELSE LET k == toks[i].chars
             e == ParseValue(toks, i + 2)
         IN IF ~e.ok THEN NoParse
            ELSE LET acc2 == (k :> e.val) @@ acc IN
                 IF IsP(toks, e.next, ",") THEN ParseMembers(toks, e.next + 1, acc2)
                 ELSE IF IsP(toks, e.next, "}") THEN Parsed(PyDict(acc2), e.next + 1)
                 ELSE NoParse

json_loads(content) ==
    LET r == ParseValue(content.val, 1) IN
    IF r.ok /\ r.next = Len(content.val) + 1 THEN Ok(r.val)
    ELSE Raise("JSONDecodeError", "json.loads")

(***************************************************************************)
(* discogs_alert.entities (not part of client.py): each entity is a        *)
(* dataclass built from keyword arguments, which must be exactly its       *)
(* fields.                                                                 *)
(***************************************************************************)
k_id == <<"i", "d">>
k_title == <<"t", "i", "t", "l", "e">>
k_name == <<"n", "a", "m", "e">>
k_items == <<"i", "t", "e", "m", "s">>
k_price == <<"p", "r", "i", "c", "e">>
k_num_for_sale == <<"n", "u", "m", "_", "f", "o", "r", "_", "s", "a", "l", "e">>
k_lowest_price == <<"l", "o", "w", "e", "s", "t", "_", "p", "r", "i", "c", "e">>
k_message == <<"m", "e", "s", "s", "a", "g", "e">>

Fields(cls) ==
    CASE cls = "Release" -> {k_id, k_title}
      [] cls = "Listing" -> {k_id, k_price}
      [] cls = "UserList" -> {k_id, k_name, k_items}
      [] cls = "ReleaseStats" -> {k_num_for_sale, k_lowest_price}

Entity(cls, kwargs) == [kind |-> cls, val |-> kwargs]

Construct(cls, kwargs) ==
    IF DOMAIN kwargs = Fields(cls) THEN Ok(Entity(cls, kwargs))
    ELSE Raise("TypeError", cls)

\* Cls(**x): the ** needs a mapping; then the constructor runs.
New(cls, x) ==
    IF x.kind = "dict" THEN Construct(cls, x.val)
    ELSE Raise("TypeError", "**")

\* x[key] for a str key: of a dict its value or a KeyError, of anything else a TypeError
GetItem(x, key) ==
    IF x.kind = "dict"
    THEN IF key \in DOMAIN x.val THEN Ok(x.val[key]) ELSE Raise("KeyError", "[]")
    ELSE Raise("TypeError", "[]")

\* x[key] = v on a dict
SetItem(x, key, v) == PyDict((key :> v) @@ x.val)

RECURSIVE KeysSeq(_)
KeysSeq(ks) ==
    IF ks = {} THEN <<>>
    ELSE LET k == CHOOSE x \in ks : TRUE IN <<PyStr(k)>> \o KeysSeq(ks \ {k})

\* the elements a for loop over x visits: of a list its elements in order, of a
\* str its characters, of a dict its keys; None, a bool and an int are not iterable
Iterate(x) ==
    IF x.kind = "list" THEN Ok(x.val)
    ELSE IF x.kind = "str" THEN Ok([i \in 1..Len(x.val) |-> PyStr(<<x.val[i]>>)])
    ELSE IF x.kind = "dict" THEN Ok(KeysSeq(DOMAIN x.val))
    ELSE Raise("TypeError", "iter")

(***************************************************************************)
(* The client objects.                                                     *)
(***************************************************************************)
UserClients == {"u1"}
AnonClients == {"a1"}
Clients == UserClients \cup AnonClients

\* the user token each UserTokenClient is constructed with
TokenGiven == [c \in UserClients |-> <<"t", "o", "k", "1">>]

base_url == "https://api.discogs.com"
base_url_non_api == "https://www.discogs.com"

\* f"{base}{route}{arg}{tail}"
Url(base, route, arg, tail) == [base |-> base, route |-> route, arg |-> arg, tail |-> tail]

H_LIMIT == "X-Discogs-Ratelimit"
H_USED == "X-Discogs-Ratelimit-Used"
H_REMAINING == "X-Discogs-Ratelimit-Remaining"

\* an absent header read as "0"
HeadersGet_default(headers, name) ==
    IF name \in DOMAIN headers THEN PyStr(headers[name]) ELSE PyStr(<<"0">>)

\* resp.headers.get(name)
HeadersGet(headers, name) ==
    IF name \in DOMAIN headers THEN PyStr(headers[name]) ELSE PyNone

\* What one method call did: how it ended (out), the requests it sent and the
\* responses it got, the entity constructions it attempted, and the values it
\* leaves in the client's three counters.
Run(out, sent, got, attempts, rl, used, rem) ==
    [out |-> out, sent |-> sent, got |-> got, built |-> attempts,
     rl |-> rl, used |-> used, rem |-> rem]

Ended(r, out) == [r EXCEPT !.out = out]

\* Client._request: the base class has no transport
Client_request(self, method, url, data, headers) ==
    Run(Raise("NotImplementedError", "_request"), <<>>, <<>>, <<>>,
        rate_limit[self], rate_limit_used[self], rate_limit_remaining[self])

k_token == <<"t", "o", "k", "e", "n">>

\* the request sent without its token
RequestParams_empty(self) == PyDict(<<>>)

\* params = {"token": self.user_token}
RequestParams(self) == PyDict(k_token :> PyStr(user_token[self]))

\* _request storing the used count as the remaining one and the other way round
UserTokenClient_request_swapped(self, method, url, data, headers, resp) ==
    LET req == [method |-> method, url |-> url, params |-> RequestParams(self),
                data |-> data, headers |-> headers]
        a == int(HeadersGet(resp.headers, H_LIMIT), "_request")
        b == int(HeadersGet(resp.headers, H_REMAINING), "_request")
        c == int(HeadersGet(resp.headers, H_USED), "_request")
        rl0 == rate_limit[self]
        used0 == rate_limit_used[self]
        rem0 == rate_limit_remaining[self]
    IN  IF ~a.ok THEN Run(a, <<req>>, <<resp>>, <<>>, rl0, used0, rem0)
        ELSE IF ~b.ok THEN Run(b, <<req>>, <<resp>>, <<>>, a.val, used0, rem0)
        ELSE IF ~c.ok THEN Run(c, <<req>>, <<resp>>, <<>>, a.val, b.val, rem0)
        ELSE Run(Ok(PyTuple(<<resp.content, PyInt(resp.status_code)>>)),
                 <<req>>, <<resp>>, <<>>, a.val, b.val, c.val)

\* UserTokenClient._request: one HTTP request carrying the token, answered by
\* resp; then the three counters are read from resp's headers, one after the other.
UserTokenClient_request(self, method, url, data, headers, resp) ==
    LET req == [method |-> method, url |-> url, params |-> RequestParams(self),
                data |-> data, headers |-> headers]
        a == int(HeadersGet(resp.headers, H_LIMIT), "_request")
        b == int(HeadersGet(resp.headers, H_USED), "_request")
        c == int(HeadersGet(resp.headers, H_REMAINING), "_request")
        rl0 == rate_limit[self]
        used0 == rate_limit_used[self]
        rem0 == rate_limit_remaining[self]
    IN  IF ~a.ok THEN Run(a, <<req>>, <<resp>>, <<>>, rl0, used0, rem0)
        ELSE IF ~b.ok THEN Run(b, <<req>>, <<resp>>, <<>>, a.val, used0, rem0)
        ELSE IF ~c.ok THEN Run(c, <<req>>, <<resp>>, <<>>, a.val, b.val, rem0)
        ELSE Run(Ok(PyTuple(<<resp.content, PyInt(resp.status_code)>>)),
                 <<req>>, <<resp>>, <<>>, a.val, b.val, c.val)

\* self._request(...): the subclass's method
Request(self, method, url, data, headers, resp) ==
    IF self \in UserClients
    THEN UserTokenClient_request(self, method, url, data, headers, resp)
    ELSE Client_request(self, method, url, data, headers)

\* _get sending its request again when the status is not 200
Client_get_retry(self, url, is_api, resp) ==
    LET r == Request(self, "GET", url, PyNone, PyNone, resp) IN
    IF ~r.out.ok THEN r
    ELSE LET response_content == r.out.val.val[1]
             status_code == r.out.val.val[2]
         IN IF status_code.val # 200
            THEN LET again == Request(self, "GET", url, PyNone, PyNone, resp) IN
                 [again EXCEPT !.out = IF again.out.ok THEN Ok(PyFalse) ELSE again.out,
                               !.sent = r.sent \o again.sent,
                               !.got = r.got \o again.got]
            ELSE IF is_api THEN Ended(r, json_loads(response_content))
            ELSE Ended(r, Ok(response_content))

\* Client._get
Client_get(self, url, is_api, resp) ==
    LET r == Request(self, "GET", url, PyNone, PyNone, resp) IN
    IF ~r.out.ok THEN r
    ELSE LET response_content == r.out.val.val[1]
             status_code == r.out.val.val[2]
         IN IF status_code.val # 200 THEN Ended(r, Ok(PyFalse))
            ELSE IF is_api THEN Ended(r, json_loads(response_content))
            ELSE Ended(r, Ok(response_content))

\* The call is over: the client's state and the record of the call.
Finish(self, op, args, run) ==
    \E r \in {run} :
    /\ rate_limit' = [rate_limit EXCEPT ![self] = r.rl]
    /\ rate_limit_used' = [rate_limit_used EXCEPT ![self] = r.used]
    /\ rate_limit_remaining' = [rate_limit_remaining EXCEPT ![self] = r.rem]
    /\ call' = [client |-> self, op |-> op, args |-> args]
    /\ wire' = r.sent
    /\ response' = r.got
    /\ built' = r.built
    /\ result' = r.out
    /\ rendered' = <<>>
    /\ UNCHANGED <<user_token, driver, browser>>

\* an object whose __init__ has run
Unset == [kind |-> "unset"]
Session(n) == [kind |-> "session", id |-> n]
Constructed(self) == IF self \in UserClients THEN TRUE ELSE driver[self] # Unset

Attempt(cls, x) == [cls |-> cls, arg |-> x]

\* Cls(**x) at the end of an accessor: the attempt is recorded, its outcome ends the call
Build(r, cls, x) == [r EXCEPT !.out = New(cls, x), !.built = Append(r.built, Attempt(cls, x))]

\* [da_entities.Release(**item) for item in items], left to right; the first
\* construction that raises ends it
RECURSIVE ReleaseEach(_, _, _, _)
ReleaseEach(r, elems, i, acc) ==
    IF i > Len(elems) THEN Ended(r, Ok(PyList(acc)))
    ELSE LET b == Build(r, "Release", elems[i]) IN
         IF ~b.out.ok THEN b
         ELSE ReleaseEach(b, elems, i + 1, Append(acc, b.out.val))

RECURSIVE Reversed(_)
Reversed(q) == IF q = <<>> THEN <<>> ELSE Append(Reversed(Tail(q)), Head(q))

\* the comprehension visiting the items last to first
ReleaseComprehension_reversed(r, items) ==
    LET it == Iterate(items) IN
    IF ~it.ok THEN Ended(r, it) ELSE ReleaseEach(r, Reversed(it.val), 1, <<>>)

ReleaseComprehension(r, items) ==
    LET it == Iterate(items) IN
    IF ~it.ok THEN Ended(r, it) ELSE ReleaseEach(r, it.val, 1, <<>>)

\* the type check left out
isinstance_any(x) == TRUE

\* isinstance(x, dict)
isinstance_dict(x) == x.kind = "dict"

(***************************************************************************)
(* The typed accessors and the write primitives, one action each.  resp is *)
(* the response the service gives to the request, if one is sent.          *)
(***************************************************************************)
get_list(self, list_id, resp) ==
    /\ Constructed(self)
    /\ \E r \in {Client_get(self, Url(base_url, "/lists/", FormatInt(list_id), ""), TRUE, resp)} :
         Finish(self, "get_list", <<PyInt(list_id)>>,
            IF ~r.out.ok THEN r
            ELSE LET user_list_dict == r.out.val
                     items == GetItem(user_list_dict, k_items)
                 IN IF ~items.ok THEN Ended(r, items)
                    ELSE LET c == ReleaseComprehension(r, items.val) IN
                         IF ~c.out.ok THEN c
                         ELSE Build(c, "UserList", SetItem(user_list_dict, k_items, c.out.val)))

get_listing(self, listing_id, resp) ==
    /\ Constructed(self)
    /\ \E r \in {Client_get(self, Url(base_url, "/marketplace/listings/",
                                      FormatInt(listing_id), ""), TRUE, resp)} :
         Finish(self, "get_listing", <<PyInt(listing_id)>>,
            IF ~r.out.ok THEN r ELSE Build(r, "Listing", r.out.val))

\* get_release writing the id asked for into the entity it builds
get_release_stamped(self, release_id, resp) ==
    /\ Constructed(self)
    /\ \E r \in {Client_get(self, Url(base_url, "/releases/", FormatInt(release_id), ""),
                            TRUE, resp)} :
         Finish(self, "get_release", <<PyInt(release_id)>>,
            IF ~r.out.ok THEN r
            ELSE IF r.out.val.kind # "dict" THEN Build(r, "Release", r.out.val)
            ELSE Build(r, "Release", SetItem(r.out.val, k_id, PyInt(release_id))))

get_release(self, release_id, resp) ==
    /\ Constructed(self)
    /\ \E r \in {Client_get(self, Url(base_url, "/releases/", FormatInt(release_id), ""),
                            TRUE, resp)} :
         Finish(self, "get_release", <<PyInt(release_id)>>,
            IF ~r.out.ok THEN r ELSE Build(r, "Release", r.out.val))

get_release_stats(self, release_id, resp) ==
    /\ Constructed(self)
    /\ \E r \in {Client_get(self, Url(base_url, "/marketplace/stats/",
                                      FormatInt(release_id), ""), TRUE, resp)} :
         Finish(self, "get_release_stats", <<PyInt(release_id)>>,
            IF ~r.out.ok THEN r
            ELSE IF isinstance_dict(r.out.val) THEN Build(r, "ReleaseStats", r.out.val)
            ELSE Ended(r, Ok(PyFalse)))

get_wantlist(self, username, resp) ==
    /\ Constructed(self)
    /\ Finish(self, "get_wantlist", <<PyStr(username)>>,
              Client_get(self, Url(base_url, "/users/", username, "/wants"), TRUE, resp))

Client_delete(self, url, resp) ==
    /\ Constructed(self)
    /\ Finish(self, "_delete", <<url>>, Request(self, "DELETE", url, PyNone, PyNone, resp))

Client_patch(self, url, data, resp) ==
    /\ Constructed(self)
    /\ Finish(self, "_patch", <<url, data>>, Request(self, "PATCH", url, data, PyNone, resp))

Client_post(self, url, data, resp) ==
    /\ Constructed(self)
    /\ Finish(self, "_post", <<url, data>>, Request(self, "POST", url, data, PyNone, resp))

Client_put(self, url, data, resp) ==
    /\ Constructed(self)
    /\ Finish(self, "_put", <<url, data>>, Request(self, "PUT", url, data, PyNone, resp))

(***************************************************************************)
(* AnonClient.  A browser session is [options, url, page_source]; browser  *)
(* holds the sessions started, a session's id being its position.          *)
(***************************************************************************)
options_arguments(is_root) ==
    <<"--disable-gpu", "--disable-dev-shm-usage", "--disable-infobars", "--headless",
      "--incognito", "--user-agent=random">>
    \o (IF is_root THEN <<"--no-sandbox">> ELSE <<>>)

\* AnonClient.__init__: the counters are unset, a new session is started and kept
AnonClient_init(self, is_root) ==
    /\ self \in AnonClients
    /\ driver[self] = Unset
    /\ rate_limit' = [rate_limit EXCEPT ![self] = PyNone]
    /\ rate_limit_used' = [rate_limit_used EXCEPT ![self] = PyNone]
    /\ rate_limit_remaining' = [rate_limit_remaining EXCEPT ![self] = PyNone]
    /\ browser' = Append(browser, [options |-> options_arguments(is_root),
                                   url |-> PyNone, page_source |-> <<>>])
    /\ driver' = [driver EXCEPT ![self] = Session(Len(browser) + 1)]
    /\ call' = [client |-> self, op |-> "__init__", args |-> <<>>]
    /\ wire' = <<>>
    /\ response' = <<>>
    /\ built' = <<>>
    /\ rendered' = <<>>
    /\ result' = Ok(PyNone)
    /\ UNCHANGED user_token

\* da_scrape.scrape_listings_from_marketplace (not part of client.py): one Listing
\* per listing block of the page, in page order; a block without a price gives a
\* Listing whose price is None
scrape_listings_from_marketplace(page_source, release_id) ==
    Entity("Listings",
           [release_id |-> PyInt(release_id),
            listings |-> [i \in 1..Len(page_source) |->
                Entity("Listing",
                       [price |-> IF "price" \in DOMAIN page_source[i]
                                  THEN PyInt(page_source[i].price) ELSE PyNone])]])

\* get_marketplace_listings starting a browser session of its own for each call
get_marketplace_listings_fresh(self, release_id, page) ==
    /\ self \in AnonClients
    /\ driver[self] # Unset
    /\ LET s == Len(browser) + 1
           url == Url(base_url_non_api, "/sell/release/", FormatInt(release_id),
                      "?ev=rb&sort=price%2Casc")
       IN /\ browser' = Append(browser, [options |-> browser[driver[self].id].options,
                                         url |-> url, page_source |-> page])
          /\ driver' = [driver EXCEPT ![self] = Session(s)]
          /\ rendered' = <<[session |-> s, url |-> url]>>
          /\ result' = Ok(scrape_listings_from_marketplace(page, release_id))
    /\ Len(browser) < 3
    /\ call' = [client |-> self, op |-> "get_marketplace_listings",
                args |-> <<PyInt(release_id)>>]
    /\ wire' = <<>>
    /\ response' = <<>>
    /\ built' = <<>>
    /\ UNCHANGED <<rate_limit, rate_limit_used, rate_limit_remaining, user_token>>

\* AnonClient.get_marketplace_listings: the held session loads the page (page is
\* what the browser renders), and the page is scraped
get_marketplace_listings(self, release_id, page) ==
    /\ self \in AnonClients
    /\ driver[self] # Unset
    /\ LET s == driver[self].id
           url == Url(base_url_non_api, "/sell/release/", FormatInt(release_id),
                      "?ev=rb&sort=price%2Casc")
       IN /\ browser' = [browser EXCEPT ![s].url = url, ![s].page_source = page]
          /\ rendered' = <<[session |-> s, url |-> url]>>
          /\ result' = Ok(scrape_listings_from_marketplace(page, release_id))
    /\ call' = [client |-> self, op |-> "get_marketplace_listings",
                args |-> <<PyInt(release_id)>>]
    /\ wire' = <<>>
    /\ response' = <<>>
    /\ built' = <<>>
    /\ UNCHANGED <<rate_limit, rate_limit_used, rate_limit_remaining, user_token, driver>>

(***************************************************************************)
(* The environment: the ids asked for, and what the service and the        *)
(* browser answer.                                                         *)
(***************************************************************************)
MaxItems == 2

ReleaseIds == {1, 2}
MarketIds == {1}
ListIds == {7}
ListingIds == {3}
Usernames == {<<"a", "l">>}
StatusCodes == {200, 404}

NumToks(n) == [i \in 1..Len(FormatInt(n)) |-> D(FormatInt(n)[i])]

RECURSIVE JoinComma(_)
JoinComma(texts) ==
    IF texts = <<>> THEN <<>>
    ELSE IF Len(texts) = 1 THEN texts[1]
    ELSE texts[1] \o <<P(",")>> \o JoinComma(Tail(texts))

\* {"id": <id>, "title": "A"}
ReleaseBody(id) ==
    <<P("{"), S(k_id), P(":")>> \o NumToks(id)
    \o <<P(","), S(k_title), P(":"), S(<<"A">>), P("}")>>

\* {"id": 3, "price": 15}
ListingBody == <<P("{"), S(k_id), P(":"), D("3"), P(","), S(k_price), P(":"), D("1"), D("5"), P("}")>>

\* {"num_for_sale": 4, "lowest_price": 9}
StatsBody ==
    <<P("{"), S(k_num_for_sale), P(":"), D("4"), P(","), S(k_lowest_price), P(":"), D("9"), P("}")>>

\* {"id": 7, "name": "L", "items": [<items>]}
ListBody(items) ==
    <<P("{"), S(k_id), P(":"), D("7"), P(","), S(k_name), P(":"), S(<<"L">>), P(","),
      S(k_items), P(":"), P("[")>> \o JoinComma(items) \o <<P("]"), P("}")>>

\* {"message": "x"}
MessageBody == <<P("{"), S(k_message), P(":"), S(<<"x">>), P("}")>>

\* []
EmptyArrayBody == <<P("["), P("]")>>

\* a text that is no JSON
BrokenBody == <<P("{"), Junk>>

ItemSeqs == UNION {[1..n -> {ReleaseBody(id) : id \in ReleaseIds}] : n \in 0..MaxItems}

Bodies ==
    {ReleaseBody(id) : id \in ReleaseIds}
    \cup {ListBody(items) : items \in ItemSeqs}
    \cup {ListingBody, StatsBody, MessageBody, EmptyArrayBody, BrokenBody}

HeaderNames == {H_LIMIT, H_USED, H_REMAINING}
Headers(limit, used, remaining) ==
    (H_LIMIT :> limit) @@ (H_USED :> used) @@ (H_REMAINING :> remaining)
Without(headers, name) == [n \in DOMAIN headers \ {name} |-> headers[n]]

FullHeaders == Headers(<<"6", "0">>, <<"1">>, <<"5", "9">>)
OtherHeaders == Headers(<<"2", "5">>, <<"2", "4">>, <<"1">>)

HeaderSamples ==
    {FullHeaders, OtherHeaders}
    \cup {Without(OtherHeaders, n) : n \in HeaderNames}
    \cup {[OtherHeaders EXCEPT ![H_USED] = <<"x">>]}

Response(status_code, headers, body) ==
    [status_code |-> status_code, headers |-> headers, content |-> PyBytes(body)]

\* every body under every status, with all three headers; and a response short of a header
ReadResponses ==
    {Response(st, FullHeaders, b) : st \in StatusCodes, b \in Bodies}
    \cup {Response(st, Without(OtherHeaders, H_USED), ReleaseBody(1)) : st \in StatusCodes}

\* every sample of the headers under every status
RateResponses ==
    {Response(st, h, ReleaseBody(1)) : st \in StatusCodes, h \in HeaderSamples}

\* the responses a call of self can meet: the base class sends nothing
Answers(self, responses) ==
    IF self \in UserClients THEN responses ELSE {Response(200, <<>>, <<>>)}

WriteUrls == {Url(base_url, "/releases/", FormatInt(1), "")}
WriteData == {PyStr(<<"x">>)}

\* the pages the browser renders: no listing block, a block with its price, a block without
Pages == {<<>>, <<[price |-> 15]>>, <<[condition |-> "VG"]>>}

Init ==
    /\ rate_limit = [c \in Clients |-> PyNone]
    /\ rate_limit_used = [c \in Clients |-> PyNone]
    /\ rate_limit_remaining = [c \in Clients |-> PyNone]
    /\ user_token = TokenGiven
    /\ driver = [c \in AnonClients |-> Unset]
    /\ browser = <<>>
    /\ call = [client |-> "none", op |-> "none", args |-> <<>>]
    /\ wire = <<>>
    /\ response = <<>>
    /\ built = <<>>
    /\ rendered = <<>>
    /\ result = [ok |-> TRUE, val |-> PyNone]

\* the typed accessors and the write primitives, called on the clients given
NextApi(clients, ids, responses) ==
    \/ \E self \in clients, id \in ListIds :
         \E resp \in Answers(self, responses) : get_list(self, id, resp)
    \/ \E self \in clients, id \in ListingIds :
         \E resp \in Answers(self, responses) : get_listing(self, id, resp)
    \/ \E self \in clients, id \in ids :
         \E resp \in Answers(self, responses) : get_release(self, id, resp)
    \/ \E self \in clients, id \in ids :
         \E resp \in Answers(self, responses) : get_release_stats(self, id, resp)
    \/ \E self \in clients, name \in Usernames :
         \E resp \in Answers(self, responses) : get_wantlist(self, name, resp)
    \/ \E self \in clients, url \in WriteUrls :
         \E resp \in Answers(self, responses) : Client_delete(self, url, resp)
    \/ \E self \in clients, url \in WriteUrls, data \in WriteData :
         \E resp \in Answers(self, responses) : Client_patch(self, url, data, resp)
    \/ \E self \in clients, url \in WriteUrls, data \in WriteData :
         \E resp \in Answers(self, responses) : Client_post(self, url, data, resp)
    \/ \E self \in clients, url \in WriteUrls, data \in WriteData :
         \E resp \in Answers(self, responses) : Client_put(self, url, data, resp)

\* the scraping client's construction and its one method
NextBrowser ==
    \/ \E self \in AnonClients, is_root \in BOOLEAN : AnonClient_init(self, is_root)
    \/ \E self \in AnonClients, id \in MarketIds, page \in Pages :
         get_marketplace_listings(self, id, page)

Next == NextApi(UserClients, ReleaseIds, ReadResponses)
NextRate == NextApi(Clients, MarketIds, RateResponses) \/ NextBrowser

\* the API client at work on the bodies the service may send
Spec == Init /\ [][Next]_vars

\* both clients at work, the service sending every sample of the headers
SpecRate == Init /\ [][NextRate]_vars

(***************************************************************************)
(* What the claims speak of.                                               *)
(***************************************************************************)
Accessors == {"get_list", "get_listing", "get_release", "get_release_stats", "get_wantlist"}
WriteOps == {"_delete", "_patch", "_post", "_put"}

\* the last call was made on a UserTokenClient and the service answered it
Answered == call.client \in UserClients /\ Len(response) = 1

\* the response carries all three rate-limit headers, each a decimal integer
AllPresent(headers) == HeaderNames \subseteq DOMAIN headers
AllIntegers(headers) ==
    /\ AllPresent(headers)
    /\ \A n \in HeaderNames :
         headers[n] # <<>> /\ \A i \in 1..Len(headers[n]) : IsDigit(headers[n][i])

\* the sentinel: the call returned False
IsSentinel(res) == res.ok /\ res.val.kind = "bool" /\ res.val.val = FALSE

\* the entities the sample bodies describe
ReleaseOf(id) == Entity("Release", (k_id :> PyInt(id)) @@ (k_title :> PyStr(<<"A">>)))
StatsOfSample ==
    Entity("ReleaseStats", (k_num_for_sale :> PyInt(4)) @@ (k_lowest_price :> PyInt(9)))
UserListOf(ids) ==
    Entity("UserList",
           (k_id :> PyInt(7)) @@ (k_name :> PyStr(<<"L">>))
           @@ (k_items :> PyList([i \in 1..Len(ids) |-> ReleaseOf(ids[i])])))

\* C1: a typed accessor that meets a status other than 200, all three headers
\* present, returns the sentinel False and raises nothing.
C1_NonOkGivesSentinel ==
    (/\ Answered
     /\ call.op \in Accessors
     /\ AllIntegers(response[1].headers)
     /\ response[1].status_code # 200)
    => IsSentinel(result)

\* C3: get_release_stats returns False whenever the value it read is no mapping
\* (the False of a status other than 200, or a body that decodes to a non-object
\* such as []), and the ReleaseStats built from the body when that is a
\* well-formed mapping; it never attempts a construction from a non-mapping.
C3_StatsOnlyFromMapping ==
    (Answered /\ call.op = "get_release_stats" /\ AllIntegers(response[1].headers))
    => LET resp == response[1]
           decoded == json_loads(resp.content)
       IN  /\ \A i \in 1..Len(built) : built[i].arg.kind = "dict"
           /\ resp.status_code # 200 => IsSentinel(result) /\ built = <<>>
           /\ (resp.status_code = 200 /\ decoded.ok /\ decoded.val.kind # "dict")
              => IsSentinel(result) /\ built = <<>>
           /\ (resp.status_code = 200 /\ decoded.ok /\ decoded.val.kind = "dict")
              => /\ built = <<Attempt("ReleaseStats", decoded.val)>>
                 /\ DOMAIN decoded.val.val = Fields("ReleaseStats")
                    => result = Ok(Entity("ReleaseStats", decoded.val.val))
           /\ (resp.status_code = 200 /\ resp.content = PyBytes(EmptyArrayBody))
              => IsSentinel(result)
           /\ (resp.status_code = 200 /\ resp.content = PyBytes(StatsBody))
              => result = Ok(StatsOfSample)

\* get_release_stats has met the body [] under status 200, and returned False
C3_EmptyArraySeen ==
    /\ Answered
    /\ call.op = "get_release_stats"
    /\ response[1].status_code = 200
    /\ response[1].content = PyBytes(EmptyArrayBody)
    /\ IsSentinel(result)
    /\ built = <<>>

\* C5: for a 200 response whose list object has N item mappings, get_list
\* returns a UserList whose items are N Release entities, the i-th built from
\* the i-th item mapping.
C5_ListKeepsOrder ==
    \A n \in 0..MaxItems : \A ids \in [1..n -> ReleaseIds] :
        (/\ Answered
         /\ call.op = "get_list"
         /\ AllIntegers(response[1].headers)
         /\ response[1].status_code = 200
         /\ response[1].content = PyBytes(ListBody([i \in 1..n |-> ReleaseBody(ids[i])])))
        => /\ result = Ok(UserListOf(ids))
           /\ Len(result.val.val[k_items].val) = n
           /\ \A i \in 1..n : result.val.val[k_items].val[i] = ReleaseOf(ids[i])

\* get_list has returned a list of two different releases, in the order sent
C5_TwoItemsInOrder ==
    /\ Answered
    /\ call.op = "get_list"
    /\ response[1].status_code = 200
    /\ response[1].content = PyBytes(ListBody(<<ReleaseBody(2), ReleaseBody(1)>>))
    /\ result = Ok(UserListOf(<<2, 1>>))

\* C6, as claimed: whenever the service answers get_release with status 200 and
\* valid JSON, the entity returned has the id asked for.
C6_IdIsTheOneAskedFor ==
    (/\ Answered
     /\ call.op = "get_release"
     /\ AllIntegers(response[1].headers)
     /\ response[1].status_code = 200
     /\ json_loads(response[1].content).ok)
    => /\ result.ok
       /\ result.val.kind = "Release"
       /\ result.val.val[k_id] = call.args[1]

\* C6, amended: whenever the service answers get_release with status 200 and a
\* body that is a well-formed release mapping, the entity returned is the Release
\* built from that body, so its id is the body's id, whatever id was asked for.
C6_IdIsTheBodysId ==
    (/\ Answered
     /\ call.op = "get_release"
     /\ AllIntegers(response[1].headers)
     /\ response[1].status_code = 200)
    => LET decoded == json_loads(response[1].content) IN
       /\ (decoded.ok /\ decoded.val.kind = "dict"
           /\ DOMAIN decoded.val.val = Fields("Release"))
          => /\ result = Ok(Entity("Release", decoded.val.val))
             /\ result.val.val[k_id] = decoded.val.val[k_id]
       /\ \A id \in ReleaseIds :
            response[1].content = PyBytes(ReleaseBody(id)) => result = Ok(ReleaseOf(id))

\* get_release asked for release 1 has been answered with release 2, and returned it
C6_OtherReleaseReturned ==
    /\ Answered
    /\ call.op = "get_release"
    /\ call.args = <<PyInt(1)>>
    /\ response[1].status_code = 200
    /\ response[1].content = PyBytes(ReleaseBody(2))
    /\ result = Ok(ReleaseOf(2))

\* C8: a typed accessor or write primitive sends exactly one request, however it
\* ends (status 200, another status, or an error that propagates): nothing is
\* sent again.
C8_OneRequestPerCall ==
    (call.client \in UserClients /\ call.op \in Accessors \cup WriteOps)
    => Len(wire) = 1 /\ Len(response) = 1

\* calls that failed, by a status other than 200 and by a propagated error, each
\* after one request
C8_FailedOnce ==
    /\ Answered
    /\ call.op = "get_release"
    /\ response[1].status_code # 200
    /\ ~result.ok
    /\ Len(wire) = 1

\* C9: every request a UserTokenClient sends, of any method and URL, carries
\* as the query parameter token the user token given at construction.
C9_TokenOnEveryRequest ==
    call.client \in UserClients
    => /\ user_token = TokenGiven
       /\ call.op \in Accessors \cup WriteOps => wire # <<>>
       /\ \A i \in 1..Len(wire) :
            /\ wire[i].params.kind = "dict"
            /\ DOMAIN wire[i].params.val = {k_token}
            /\ wire[i].params.val[k_token] = PyStr(TokenGiven[call.client])
            /\ wire[i].method =
                 (CASE call.op = "_delete" -> "DELETE"
                    [] call.op = "_patch" -> "PATCH"
                    [] call.op = "_post" -> "POST"
                    [] call.op = "_put" -> "PUT"
                    [] OTHER -> "GET")

\* a DELETE has gone out with the token
C9_DeleteCarriesToken ==
    /\ call.client \in UserClients
    /\ call.op = "_delete"
    /\ Len(wire) = 1
    /\ wire[1].method = "DELETE"
    /\ wire[1].params.val[k_token] = PyStr(<<"t", "o", "k", "1">>)

\* the three counters of a client
Counters(c) == <<rate_limit[c], rate_limit_used[c], rate_limit_remaining[c]>>
CountersAfter(c) == <<rate_limit'[c], rate_limit_used'[c], rate_limit_remaining'[c]>>

\* the integers the three headers of a response spell
HeaderIntegers(headers) ==
    <<PyInt(DecimalValue(headers[H_LIMIT])), PyInt(DecimalValue(headers[H_USED])),
      PyInt(DecimalValue(headers[H_REMAINING]))>>

\* C2: after a request of a UserTokenClient, of any method and status, whose
\* response carries the three rate-limit headers, the client's three counters are
\* the three integers of those headers; and no step but a request of that client
\* changes its counters.
C2_CountersFollowHeaders ==
    [][/\ (call'.client \in UserClients /\ Len(response') = 1
           /\ AllIntegers(response'[1].headers))
          => CountersAfter(call'.client) = HeaderIntegers(response'[1].headers)
       /\ \A c \in Clients :
            CountersAfter(c) # Counters(c)
            => call'.client = c /\ c \in UserClients /\ Len(wire') = 1]_vars

\* a PATCH answered 404 has set the counters to 25, 24 and 1, and a later step
\* of the other client has left them there
C2_KeptAcrossOtherSteps ==
    /\ call.client \in AnonClients
    /\ call.op = "get_marketplace_listings"
    /\ Counters("u1") = <<PyInt(25), PyInt(24), PyInt(1)>>

\* C4: when any of the three rate-limit headers is absent from the response, the
\* call ends in an error raised in _request, whatever the status: neither a
\* (content, status) pair nor the sentinel False is returned.
C4_AbsentHeaderRaises ==
    (Answered /\ ~AllPresent(response[1].headers))
    => /\ ~result.ok
       /\ result.exc = "TypeError"
       /\ result.at = "_request"
       /\ built = <<>>

\* get_release_stats, which turns every non-mapping into False, has met a 404
\* without the remaining header, and raised
C4_StatsCallRaised ==
    /\ Answered
    /\ call.op = "get_release_stats"
    /\ response[1].status_code = 404
    /\ response[1].headers = Without(OtherHeaders, H_REMAINING)
    /\ ~result.ok

\* C7: an AnonClient holds one browser session for its lifetime: once started at
\* construction it stays the client's session, every get_marketplace_listings
\* call loads its page in that session, and only a construction starts a session;
\* no session is ever ended.
C7_OneSessionForLife ==
    [][/\ \A a \in AnonClients :
            /\ driver[a] # Unset => driver'[a] = driver[a]
            /\ (call'.client = a /\ call'.op = "get_marketplace_listings")
               => /\ driver[a] # Unset
                  /\ Len(rendered') = 1
                  /\ rendered'[1].session = driver[a].id
                  /\ browser'[driver[a].id].url = rendered'[1].url
       /\ Len(browser') >= Len(browser)
       /\ Len(browser') # Len(browser) => call'.op = "__init__"
       /\ Len(browser') <= Cardinality(AnonClients)]_vars

\* the client's one session has loaded a page with a listing
C7_PageLoaded ==
    \E a \in AnonClients :
        /\ call.client = a
        /\ call.op = "get_marketplace_listings"
        /\ driver[a] = Session(1)
        /\ Len(browser) = 1
        /\ rendered = <<[session |-> 1, url |-> browser[1].url]>>
        /\ browser[1].page_source = <<[price |-> 15]>>

\* C10, as claimed: the three counters are all unset or all set, and a request
\* that fails on an absent header leaves all three as they were.
C10_CountersMoveTogether ==
    [][\A c \in UserClients :
         /\ \/ CountersAfter(c) = <<PyNone, PyNone, PyNone>>
            \/ \A i \in 1..3 : CountersAfter(c)[i].kind = "int"
         /\ (call'.client = c /\ Len(response') = 1 /\ ~AllPresent(response'[1].headers))
            => CountersAfter(c) = Counters(c)]_vars

====
